---- MODULE Spec2Model ----
(***************************************************************************)
(* Model of source/conf.py of the Giskard documentation build: the two    *)
(* callbacks with control flow, linkcode_resolve (source-link resolver)   *)
(* and toctree_from_doc (toctree-fragment renderer).                       *)
(*                                                                         *)
(* Python strings are sequences of one-character strings, so that         *)
(* str.split, "%d" formatting and concatenation are computed, not assumed. *)
(* A value that may be None is a record [isNone, s].                       *)
(***************************************************************************)
EXTENDS Integers, Sequences, FiniteSets, TLC

VARIABLES
    \* ---- linkcode_resolve: one call in progress
    pc,         \* position in linkcode_resolve
    domain,     \* argument domain
    modname,    \* info["module"]
    fullname,   \* info["fullname"], a string
    obj,        \* local obj (an object id, 0 before it is bound)
    parts,      \* the segments of fullname.split(".") not walked yet
    fn,         \* local fn
    ret,     \* the value returned to the caller
    stdout,     \* tags of the diagnostic lines printed by this call
    regReads,   \* reads of sys.modules made by this call
    probes,     \* attribute lookups and inspect calls made by this call
    srclines,   \* the runtime: what inspect.getsourcelines answers per object
    \* ---- toctree_from_doc: one call in progress
    tpc,        \* position in toctree_from_doc
    pagename,   \* the page being rendered (closure of html_page_context)
    docname,    \* argument docname
    kwargs,     \* keyword arguments
    env,        \* app.env: docname -> the toctree nodes of its doctree
    heap,       \* the docutils nodes alive, by identity (index)
    toctrees,   \* local toctrees: node ids
    resolved,   \* local resolved: node ids, 0 for None
    result,     \* local result: a node id, 0 before it is bound
    fragment,   \* the string returned to the template
    renders,    \* calls of app.builder.render_partial made by this call
    callNo,     \* 1 for a call, 2 for its repetition with the same arguments
    firstFragment \* what call 1 returned, while call 2 runs

linkvars == <<pc, domain, modname, fullname, obj, parts, fn, ret, stdout,
              regReads, probes, srclines>>
tocvars == <<tpc, pagename, docname, kwargs, env, heap, toctrees, resolved,
             result, fragment, renders, callNo, firstFragment>>
vars == <<linkvars, tocvars>>

(***************************************************************************)
(* Bounds of the model.                                                    *)
(***************************************************************************)
MaxNameLen == 3     \* characters of info["fullname"]
MaxLineno == 10     \* largest first line getsourcelines reports
MaxCount == 2       \* largest number of source lines of an object

(***************************************************************************)
(* Python values.                                                          *)
(***************************************************************************)
NoneV == [isNone |-> TRUE, s |-> <<>>]
Str(s) == [isNone |-> FALSE, s |-> s]

RECURSIVE Find(_, _, _)
\* str.find(sep, i): the first index >= i where sep occurs in s, 0 when none
Find(s, sep, i) ==
    IF i + Len(sep) - 1 > Len(s) THEN 0
    ELSE IF SubSeq(s, i, i + Len(sep) - 1) = sep THEN i
    ELSE Find(s, sep, i + 1)

RECURSIVE Split(_, _)
\* str.split(sep): left to right, non-overlapping; always at least one part
Split(s, sep) ==
    LET k == Find(s, sep, 1)
    IN  IF k = 0 THEN <<s>>
        ELSE <<SubSeq(s, 1, k - 1)>> \o Split(SubSeq(s, k + Len(sep), Len(s)), sep)

\* q[-1]
LastOf(q) == q[Len(q)]

Digit(d) == <<"0", "1", "2", "3", "4", "5", "6", "7", "8", "9">>[d + 1]

RECURSIVE DecStr(_)
\* "%d" % n for n >= 0
DecStr(n) == IF n < 10 THEN <<Digit(n)>> ELSE DecStr(n \div 10) \o <<Digit(n % 10)>>

(***************************************************************************)
(* The running program that linkcode_resolve inspects: the loaded-module  *)
(* registry and the attributes of the loaded objects.  Object 1 is the     *)
(* module giskard_hub; object 2 is a wrapper with a test_fn attribute;     *)
(* object 3 is the plain function that test_fn refers to.                  *)
(***************************************************************************)
Objects == {1, 2, 3}
ModGiskardHub == <<"giskard_hub">>
ModNotLoaded == <<"not_loaded">>

\* sys.modules
sys_modules == (ModGiskardHub :> 1)

\* the attributes of each object: name -> object
attrs ==
    (1 :> ((<<"a">> :> 2) @@ (<<"f">> :> 3))) @@
    (2 :> (<<"test_fn">> :> 3)) @@
    (3 :> <<>>)

HasAttr(o, name) == name \in DOMAIN attrs[o]

Marker == <<"g","i","s","k","a","r","d","_","h","u","b">>
BaseUrl == <<"h","t","t","p","s",":","/","/","g","i","t","h","u","b",".","c","o","m","/","G","i","s","k","a","r","d","-","A","I","/","g","i","s","k","a","r","d","-","h","u","b","/","b","l","o","b","/","m","a","i","n","/","s","r","c","/","g","i","s","k","a","r","d","_","h","u","b">>

\* source files the runtime may report
PathOnce == <<"/","s","p","/","g","i","s","k","a","r","d","_","h","u","b","/","c","l","i","e","n","t",".","p","y">>
PathTwice == <<"/","g","i","s","k","a","r","d","_","h","u","b","/","s","r","c","/","g","i","s","k","a","r","d","_","h","u","b","/","d","a","t","a",".","p","y">>
PathNoMarker == <<"/","l","i","b","/","g","i","s","k","a","r","d","/","x",".","p","y">>
Paths == {PathOnce, PathTwice, PathNoMarker}

\* what inspect.getsourcefile can do: raise, return None, return a path
FileOutcomes ==
    {[kind |-> "raise", path |-> <<>>], [kind |-> "none", path |-> <<>>]} \cup
    {[kind |-> "path", path |-> p] : p \in Paths}

\* what inspect.getsourcelines can do: raise, or return (source, lineno);
\* lineno is 0 for a module
Linenos == {0, 1, MaxLineno}
LineOutcomes ==
    {[ok |-> FALSE, lineno |-> 0, count |-> 0]} \cup
    {[ok |-> TRUE, lineno |-> l, count |-> c] : l \in Linenos, c \in 1..MaxCount}

\* the arguments the documentation engine may pass
Domains == {"py", "c"}
Modnames == {ModGiskardHub, ModNotLoaded}
NameChars == {"a", "f", "test_fn", "."}
RECURSIVE StringsUpTo(_)
StringsUpTo(n) ==
    IF n = 0 THEN {<<>>}
    ELSE LET shorter == StringsUpTo(n - 1)
         IN  shorter \cup {Append(s, c) : s \in {t \in shorter : Len(t) = n - 1}, c \in NameChars}
Fullnames == StringsUpTo(MaxNameLen)

\* the renderer's variables while only linkcode_resolve is exercised
TocOff ==
    /\ tpc = "off" /\ pagename = "" /\ docname = "" /\ kwargs = <<>>
    /\ env = <<>> /\ heap = <<>> /\ toctrees = <<>> /\ resolved = <<>>
    /\ result = 0 /\ fragment = NoneV /\ renders = 0 /\ callNo = 0
    /\ firstFragment = NoneV

\* the resolver's variables while only toctree_from_doc is exercised
LinkOff ==
    /\ pc = "off"
    /\ domain = "" /\ modname = <<>> /\ fullname = <<>>
    /\ obj = 0 /\ parts = <<>> /\ fn = NoneV /\ ret = NoneV
    /\ stdout = <<>> /\ regReads = 0 /\ probes = <<>>
    /\ srclines = <<>>

(***************************************************************************)
(* linkcode_resolve                                                        *)
(***************************************************************************)
\* a resolver that handles every domain
DomainSupportedAny(d) == TRUE

\* line 170: domain != "py"
DomainSupported(d) == d = "py"

\* line 179: sys.modules.get(modname); 0 stands for None
SysModulesGet(name) == IF name \in DOMAIN sys_modules THEN sys_modules[name] ELSE 0

\* a walk whose except clause skips the missing segment instead of returning
WalkOutcomeSkip(o, part, strRaises) ==
    IF ~HasAttr(o, part) THEN [ok |-> TRUE, obj |-> o]
    ELSE IF strRaises THEN [ok |-> FALSE, obj |-> attrs[o][part]]
    ELSE [ok |-> TRUE, obj |-> attrs[o][part]]

\* lines 187-194: one iteration of the walk.  getattr and the print of the
\* object are both inside the try; the bare except returns None.
WalkOutcome(o, part, strRaises) ==
    IF ~HasAttr(o, part) THEN [ok |-> FALSE, obj |-> o]
    ELSE IF strRaises THEN [ok |-> FALSE, obj |-> attrs[o][part]]
    ELSE [ok |-> TRUE, obj |-> attrs[o][part]]

\* line 198: the object handed to inspect.getsourcefile
SourceFileTarget(o) == IF HasAttr(o, <<"test_fn">>) THEN attrs[o][<<"test_fn">>] ELSE o

\* line 210: the object handed to inspect.getsourcelines
SourceLinesTarget(o) == o

\* lines 196-203: fn after the try/except
FnOf(outcome) == IF outcome.kind = "path" THEN Str(outcome.path) ELSE NoneV

\* line 215
LineSpec(lineno, count) ==
    <<"#", "L">> \o DecStr(lineno) \o <<"-", "L">> \o DecStr(lineno + count - 1)

\* a resolver that gives up when getsourcelines raises
LinkUrlStrict(file, lines) ==
    IF ~lines.ok THEN NoneV
    ELSE LET linespec == IF lines.lineno # 0 THEN LineSpec(lines.lineno, lines.count) ELSE <<>>
         IN  Str(BaseUrl \o LastOf(Split(file, Marker)) \o linespec)

\* lines 209-223: the value returned once fn is known
LinkUrl(file, lines) ==
    LET lineno == IF lines.ok THEN lines.lineno ELSE 0   \* None and 0 are both falsy
        linespec == IF lineno # 0 THEN LineSpec(lineno, lines.count) ELSE <<>>
        filename == LastOf(Split(file, Marker))
    IN  Str(BaseUrl \o filename \o linespec)

InitLink ==
    /\ pc = "idle"
    /\ domain = "" /\ modname = <<>> /\ fullname = <<>>
    /\ obj = 0 /\ parts = <<>> /\ fn = NoneV /\ ret = NoneV
    /\ stdout = <<>> /\ regReads = 0 /\ probes = <<>>
    /\ srclines \in [Objects \ {1} -> LineOutcomes]
    /\ TocOff

\* the engine calls linkcode_resolve(domain, info)
Call ==
    /\ pc = "idle"
    /\ \E d \in Domains, m \in Modnames, f \in Fullnames :
          /\ domain' = d /\ modname' = m /\ fullname' = f
    /\ pc' = "check_domain"
    /\ UNCHANGED <<obj, parts, fn, ret, stdout, regReads, probes, srclines, tocvars>>

\* lines 170-171
CheckDomain ==
    /\ pc = "check_domain"
    /\ IF DomainSupported(domain)
       THEN pc' = "lookup" /\ UNCHANGED ret
       ELSE pc' = "done" /\ ret' = NoneV
    /\ UNCHANGED <<domain, modname, fullname, obj, parts, fn, stdout, regReads,
                   probes, srclines, tocvars>>

\* lines 173-186
LookupModule ==
    /\ pc = "lookup"
    /\ regReads' = regReads + 1
    /\ LET submod == SysModulesGet(modname)
       IN  IF submod = 0
           THEN /\ stdout' = stdout \o <<"#", "modname", "fullname", "#">>
                /\ ret' = NoneV /\ pc' = "done"
                /\ UNCHANGED <<obj, parts>>
           ELSE /\ stdout' = stdout \o <<"#", "modname", "fullname">>
                /\ obj' = submod
                /\ parts' = Split(fullname, <<".">>)
                /\ pc' = "walk"
                /\ UNCHANGED ret
    /\ UNCHANGED <<domain, modname, fullname, fn, probes, srclines, tocvars>>

\* lines 186-194: one iteration of the loop
WalkStep ==
    /\ pc = "walk"
    /\ parts # <<>>
    /\ \E strRaises \in BOOLEAN :
          LET w == WalkOutcome(obj, Head(parts), strRaises)
          IN  /\ probes' = Append(probes, [op |-> "getattr", obj |-> obj])
              /\ IF w.ok
                 THEN /\ obj' = w.obj
                      /\ parts' = Tail(parts)
                      /\ stdout' = Append(stdout, "obj")
                      /\ pc' = "walk"
                      /\ UNCHANGED ret
                 ELSE /\ obj' = w.obj
                      /\ stdout' = Append(stdout, "#")
                      /\ ret' = NoneV /\ pc' = "done"
                      /\ UNCHANGED parts
    /\ UNCHANGED <<domain, modname, fullname, fn, regReads, srclines, tocvars>>

\* lines 196-207
GetSourceFile ==
    /\ pc = "walk"
    /\ parts = <<>>
    /\ \E outcome \in FileOutcomes :
          /\ fn' = FnOf(outcome)
          /\ probes' = Append(probes, [op |-> "getsourcefile", obj |-> SourceFileTarget(obj)])
          /\ IF fn'.isNone \/ fn'.s = <<>>
             THEN /\ stdout' = Append(stdout, "#")
                  /\ ret' = NoneV /\ pc' = "done"
             ELSE /\ stdout' = Append(stdout, "fn")
                  /\ pc' = "getlines"
                  /\ UNCHANGED ret
    /\ UNCHANGED <<domain, modname, fullname, obj, parts, regReads, srclines, tocvars>>

\* lines 209-223
GetSourceLines ==
    /\ pc = "getlines"
    /\ probes' = Append(probes, [op |-> "getsourcelines", obj |-> SourceLinesTarget(obj)])
    /\ ret' = LinkUrl(fn.s, srclines[SourceLinesTarget(obj)])
    /\ stdout' = stdout \o <<"linespec", "#">>
    /\ pc' = "done"
    /\ UNCHANGED <<domain, modname, fullname, obj, parts, fn, regReads, srclines, tocvars>>

\* the engine takes the returned value; the next symbol reference may be resolved
Return ==
    /\ pc = "done"
    /\ pc' = "idle"
    /\ domain' = "" /\ modname' = <<>> /\ fullname' = <<>>
    /\ obj' = 0 /\ parts' = <<>> /\ fn' = NoneV /\ ret' = NoneV
    /\ stdout' = <<>> /\ regReads' = 0 /\ probes' = <<>>
    /\ UNCHANGED <<srclines, tocvars>>

NextLink == Call \/ CheckDomain \/ LookupModule \/ WalkStep \/ GetSourceFile
               \/ GetSourceLines \/ Return

SpecLink == InitLink /\ [][NextLink]_vars
(***************************************************************************)
(* toctree_from_doc                                                        *)
(***************************************************************************)
MaxDecls == 2       \* toctree declarations in the source document

Pages == {"p", "q"}
DocNav == "nav"
DocMissing == "missing"
Docnames == {DocNav, DocMissing}

\* an entry of a toctree: the page it refers to, and whether the resolved
\* link is marked as the page being displayed
Entry(page, cur) == [ref |-> page, current |-> cur]
EntryLists ==
    {<<>>, <<Entry("p", FALSE)>>, <<Entry("q", FALSE)>>,
     <<Entry("p", FALSE), Entry("q", FALSE)>>, <<Entry("q", FALSE), Entry("p", FALSE)>>}

\* a docutils node: its children and, for a toctree node, the hidden option
Node(children, hidden) == [children |-> children, hidden |-> hidden]
DeclNodes == {Node(es, h) : es \in EntryLists, h \in BOOLEAN}

RECURSIVE SeqsUpTo(_, _)
SeqsUpTo(S, n) ==
    IF n = 0 THEN {<<>>}
    ELSE LET shorter == SeqsUpTo(S, n - 1)
         IN  shorter \cup {Append(q, x) : q \in {t \in shorter : Len(t) = n - 1}, x \in S}

\* the keyword arguments a template may pass
KwargsSet ==
    {<<>>, ("includehidden" :> TRUE), ("includehidden" :> FALSE),
     ("titles_only" :> TRUE) @@ ("maxdepth" :> 1)}

\* kwargs.get(key, default)
KwGet(kw, key, default) == IF key \in DOMAIN kw THEN kw[key] ELSE default

\* lines 145-148: the options handed to TocTree.resolve
ResolveOptions(kw) ==
    [maxdepth |-> KwGet(kw, "maxdepth", -1),  titles_only |-> KwGet(kw, "titles_only", FALSE),
     collapse |-> KwGet(kw, "collapse", FALSE),
     includehidden |-> KwGet(kw, "includehidden", FALSE)]

\* lines 140-149, TocTree.resolve(pagename, builder, toctree, ...): None for
\* a hidden toctree unless includehidden, None when no entry is left, else
\* a new node whose children are new link entries made for the page
\* displayed.  The toctree node is only read.
ResolvesToTree(decl, opts) ==
    /\ ~(decl.hidden /\ ~opts.includehidden)
    /\ decl.children # <<>>
ResolvedChildren(page, decl) ==
    [i \in 1..Len(decl.children) |-> Entry(decl.children[i].ref, decl.children[i].ref = page)]

\* a renderer that forgets to drop the None resolutions
KeepNone(q) == q

\* line 153: [r for r in resolved if r is not None]
RECURSIVE DropNone(_)
DropNone(q) ==
    IF q = <<>> THEN <<>>
    ELSE IF Head(q) = 0 THEN DropNone(Tail(q))
    ELSE <<Head(q)>> \o DropNone(Tail(q))

\* a renderer that merges into the first toctree node of the document
MergeBaseDecl(res, decls) == decls[1]

\* line 157: the node the later trees are merged into
MergeBase(res, decls) == res[1]

\* a merge that inserts the later entries in front
ExtendFront(h, target, source) ==
    [h EXCEPT ![target].children = h[source].children \o @]

\* line 159: result.extend(toctree.children) on the node store
Extend(h, target, source) ==
    [h EXCEPT ![target].children = @ \o h[source].children]

\* line 161: app.builder.render_partial(result)["fragment"]
RECURSIVE RenderEntries(_)
RenderEntries(es) ==
    IF es = <<>> THEN <<>>
    ELSE <<"<li>", (IF Head(es).current THEN "<a class=current href=" ELSE "<a href="),
           Head(es).ref, "</a></li>">> \o RenderEntries(Tail(es))
RenderPartial(node) == <<"<ul>">> \o RenderEntries(node.children) \o <<"</ul>">>

\* the nodes the Document Environment owns
EnvNodes == 1..Len(env[DocNav])

InitToc ==
    /\ LinkOff
    /\ tpc = "idle"
    /\ pagename = "" /\ docname = "" /\ kwargs = <<>>
    /\ heap \in SeqsUpTo(DeclNodes, MaxDecls)
    /\ env = (DocNav :> [i \in 1..Len(heap) |-> i])
    /\ toctrees = <<>> /\ resolved = <<>> /\ result = 0
    /\ fragment = NoneV /\ renders = 0 /\ callNo = 0 /\ firstFragment = NoneV

\* a template calls toctree_from_doc(docname, **kwargs) while pagename is rendered
TocCall ==
    /\ tpc = "idle"
    /\ \E pg \in Pages, d \in Docnames, kw \in KwargsSet :
          /\ pagename' = pg /\ docname' = d /\ kwargs' = kw
    /\ callNo' = 1
    /\ tpc' = "get_doctree"
    /\ UNCHANGED <<env, heap, toctrees, resolved, result, fragment, renders,
                   firstFragment, linkvars>>

\* lines 132-136
GetDoctree ==
    /\ tpc = "get_doctree"
    /\ IF docname \notin DOMAIN env
       THEN \* app.env.get_doctree raises; the error propagates to the caller
            tpc' = "raised" /\ UNCHANGED <<toctrees, fragment>>
       ELSE /\ toctrees' = env[docname]
            /\ IF toctrees' = <<>>
               THEN tpc' = "done" /\ fragment' = Str(<<>>)
               ELSE tpc' = "resolve" /\ UNCHANGED fragment
    /\ UNCHANGED <<pagename, docname, kwargs, env, heap, resolved, result, renders,
                   callNo, firstFragment, linkvars>>

\* lines 139-151: one element of the list comprehension
ResolveOne ==
    /\ tpc = "resolve"
    /\ Len(resolved) < Len(toctrees)
    /\ LET decl == heap[toctrees[Len(resolved) + 1]]
       IN  IF ResolvesToTree(decl, ResolveOptions(kwargs))
           THEN /\ heap' = Append(heap, Node(ResolvedChildren(pagename, decl), FALSE))
                /\ resolved' = Append(resolved, Len(heap) + 1)
           ELSE /\ resolved' = Append(resolved, 0)
                /\ UNCHANGED heap
    /\ UNCHANGED <<tpc, pagename, docname, kwargs, env, toctrees, result, fragment,
                   renders, callNo, firstFragment, linkvars>>

\* lines 153-157
FilterResolved ==
    /\ tpc = "resolve"
    /\ Len(resolved) = Len(toctrees)
    /\ resolved' = DropNone(resolved)
    /\ IF resolved' = <<>>
       THEN tpc' = "done" /\ fragment' = Str(<<>>) /\ UNCHANGED result
       ELSE /\ result' = MergeBase(resolved', toctrees)
            /\ tpc' = "merge"
            /\ UNCHANGED fragment
    /\ UNCHANGED <<pagename, docname, kwargs, env, heap, toctrees, renders, callNo,
                   firstFragment, linkvars>>

\* lines 158-159: one iteration over resolved[1:]; resolved keeps the trees
\* not merged yet behind its first element
MergeStep ==
    /\ tpc = "merge"
    /\ Len(resolved) > 1
    /\ IF result = 0 \/ resolved[2] = 0
       THEN \* an attribute of None is read: AttributeError, not caught
            tpc' = "raised" /\ UNCHANGED <<heap, resolved>>
       ELSE /\ heap' = Extend(heap, result, resolved[2])
            /\ resolved' = <<resolved[1]>> \o SubSeq(resolved, 3, Len(resolved))
            /\ UNCHANGED tpc
    /\ UNCHANGED <<pagename, docname, kwargs, env, toctrees, result, fragment,
                   renders, callNo, firstFragment, linkvars>>

\* line 161
Render ==
    /\ tpc = "merge"
    /\ Len(resolved) = 1
    /\ renders' = renders + 1
    /\ IF result = 0
       THEN \* render_partial(None) raises, not caught
            tpc' = "raised" /\ UNCHANGED fragment
       ELSE fragment' = Str(RenderPartial(heap[result])) /\ tpc' = "done"
    /\ UNCHANGED <<pagename, docname, kwargs, env, heap, toctrees, resolved, result,
                   callNo, firstFragment, linkvars>>

\* the locals of a finished call die; the environment's nodes stay as they are
DropLocals ==
    /\ heap' = SubSeq(heap, 1, Cardinality(EnvNodes))
    /\ toctrees' = <<>> /\ resolved' = <<>> /\ result' = 0 /\ renders' = 0

\* the template calls again with the same arguments, the environment unchanged
TocCallAgain ==
    /\ tpc = "done"
    /\ callNo = 1
    /\ DropLocals
    /\ firstFragment' = fragment
    /\ fragment' = NoneV
    /\ callNo' = 2
    /\ tpc' = "get_doctree"
    /\ UNCHANGED <<pagename, docname, kwargs, env, linkvars>>

\* the call is over, or the page build was aborted by the error
TocReturn ==
    /\ tpc \in {"done", "raised"}
    /\ DropLocals
    /\ pagename' = "" /\ docname' = "" /\ kwargs' = <<>>
    /\ fragment' = NoneV /\ firstFragment' = NoneV /\ callNo' = 0
    /\ tpc' = "idle"
    /\ UNCHANGED <<env, linkvars>>

NextToc == TocCall \/ GetDoctree \/ ResolveOne \/ FilterResolved \/ MergeStep
              \/ Render \/ TocCallAgain \/ TocReturn

SpecToc == InitToc /\ [][NextToc]_vars
(***************************************************************************)
(* Properties of linkcode_resolve, stated for SpecLink                     *)
(***************************************************************************)
TestFn == <<"test_fn">>
Loaded == modname \in DOMAIN sys_modules
Finished == pc = "done"
Probed(op) == \E i \in 1..Len(probes) : probes[i].op = op
StartsWith(s, prefix) == Len(prefix) <= Len(s) /\ SubSeq(s, 1, Len(prefix)) = prefix
EndsWith(s, suffix) ==
    Len(suffix) <= Len(s) /\ SubSeq(s, Len(s) - Len(suffix) + 1, Len(s)) = suffix

RECURSIVE Resolvable(_, _)
\* every segment of ps is an attribute of the object reached before it
Resolvable(o, ps) ==
    ps = <<>> \/ (HasAttr(o, Head(ps)) /\ Resolvable(attrs[o][Head(ps)], Tail(ps)))

RECURSIVE FirstFailing(_, _)
\* the position of the first segment of ps that is not an attribute
FirstFailing(o, ps) ==
    IF ~HasAttr(o, Head(ps)) THEN 1 ELSE 1 + FirstFailing(attrs[o][Head(ps)], Tail(ps))

NameSegments == Split(fullname, <<".">>)
InvalidPath == Finished /\ domain = "py" /\ Loaded /\ ~Resolvable(sys_modules[modname], NameSegments)

\* C1: for a wrapper with an inner test_fn at another source location, the
\* returned URL carries the line range of the inner test_fn, the object whose
\* file the URL names, and not the line range of the wrapper.
C1_InnerLineRange ==
    (/\ Finished /\ ~ret.isNone
     /\ HasAttr(obj, TestFn)
     /\ srclines[obj].ok /\ srclines[obj].lineno >= 1
     /\ srclines[attrs[obj][TestFn]].ok /\ srclines[attrs[obj][TestFn]].lineno >= 1
     /\ srclines[obj] # srclines[attrs[obj][TestFn]])
    => LET inner == srclines[attrs[obj][TestFn]]
       IN  EndsWith(ret.s, <<"#", "L">> \o DecStr(inner.lineno) \o <<"-", "L">>
                           \o DecStr(inner.lineno + inner.count - 1))

\* C2: whenever a source file was found and line introspection succeeded
\* with first line s and c lines, for every s it can report, the URL is
\* exactly <base-url><relative-path>#L<s>-L<s+c-1>; the suffix is never
\* empty then.
C2_ExactLineRange ==
    (Finished /\ ~fn.isNone /\ srclines[obj].ok)
    => ret = Str(BaseUrl \o LastOf(Split(fn.s, Marker))
                 \o <<"#", "L">> \o DecStr(srclines[obj].lineno) \o <<"-", "L">>
                 \o DecStr(srclines[obj].lineno + srclines[obj].count - 1))

\* C5: with the module loaded and a dotted name having a segment that is
\* not an attribute of the object reached so far (an empty name or segment
\* included), the call returns None at the first failing segment at the
\* latest: nothing is introspected and no URL is built from a prefix.
C5_InvalidPathAbsent ==
    InvalidPath
    => /\ ret.isNone
       /\ \A i \in 1..Len(probes) : probes[i].op = "getattr"
       /\ Len(probes) <= FirstFailing(sys_modules[modname], NameSegments)
C5_Witness ==
    /\ InvalidPath /\ ret.isNone
    /\ Len(probes) = 2
    /\ FirstFailing(sys_modules[modname], NameSegments) = 2

\* C6: in the supported domain a module name that is no key of sys.modules
\* yields None with no attribute walked and nothing introspected; any other
\* domain yields None before sys.modules is read at all.
C6_NotLoadedOrForeignDomain ==
    /\ (pc \notin {"idle", "off"} /\ domain # "py")
       => (regReads = 0 /\ probes = <<>> /\ stdout = <<>> /\ (Finished => ret.isNone))
    /\ (pc \notin {"idle", "off"} /\ domain = "py" /\ ~Loaded)
       => (probes = <<>> /\ regReads <= 1 /\ (Finished => ret.isNone))
C6_Witness ==
    /\ Finished /\ domain = "py" /\ ~Loaded /\ regReads = 1 /\ ret.isNone
    /\ fullname = <<"a">>

\* C7: the call never raises, and the diagnostic output does not change
\* what is returned: a dotted name whose every segment is an attribute is
\* walked to its end, so that the lookups alone decide between URL and None.
C7_NeverRaisesDiagnosticsNeutral ==
    /\ pc # "raised"
    /\ (Finished /\ domain = "py" /\ Loaded /\ Resolvable(sys_modules[modname], NameSegments))
       => Probed("getsourcefile")

\* C9: no source file (introspection raised or gave none) means None,
\* whatever the line information would be; a source file with failing line
\* introspection means the whole-file URL <base-url><relative-path>, with
\* an empty line suffix, not None.
C9_PartialDegradation ==
    /\ (Finished /\ Probed("getsourcefile") /\ fn.isNone)
       => (ret.isNone /\ ~Probed("getsourcelines"))
    /\ (Finished /\ ~fn.isNone /\ ~srclines[obj].ok)
       => ret = Str(BaseUrl \o LastOf(Split(fn.s, Marker)))
C9_Witness ==
    /\ Finished /\ ~fn.isNone /\ ~srclines[obj].ok
    /\ Probed("getsourcelines") /\ ~ret.isNone
    /\ HasAttr(obj, TestFn) /\ srclines[attrs[obj][TestFn]].ok

\* C10: the path appended to the base URL is the part of the file path
\* after the marker "giskard_hub", never the absolute local path, whether
\* the marker occurs once, several times or not at all.
C10_RelativePath ==
    (Finished /\ ~ret.isNone)
    => LET rest == SubSeq(ret.s, Len(BaseUrl) + 1, Len(ret.s))
       IN  /\ StartsWith(ret.s, BaseUrl)
           /\ ~StartsWith(rest, fn.s)
           /\ \E k \in 1..Len(fn.s) :
                 /\ SubSeq(fn.s, k, k + Len(Marker) - 1) = Marker
                 /\ StartsWith(rest, SubSeq(fn.s, k + Len(Marker), Len(fn.s)))

(***************************************************************************)
(* Properties of toctree_from_doc, stated for SpecToc                      *)
(***************************************************************************)
TocFinished == tpc = "done"
Options == ResolveOptions(kwargs)

RECURSIVE ResolvingDecls(_)
\* the toctree nodes of q, in order, that resolve to a tree for this call
ResolvingDecls(q) ==
    IF q = <<>> THEN <<>>
    ELSE IF ResolvesToTree(heap[Head(q)], Options)
         THEN <<Head(q)>> \o ResolvingDecls(Tail(q))
         ELSE ResolvingDecls(Tail(q))

RECURSIVE EntriesOf(_)
\* the entries of the trees that the toctree nodes of q resolve to, in order
EntriesOf(q) ==
    IF q = <<>> THEN <<>>
    ELSE ResolvedChildren(pagename, heap[Head(q)]) \o EntriesOf(Tail(q))

FirstTransient == Cardinality(EnvNodes) + 1

\* C3: the fragment renders one merged tree: its root is the first resolved
\* tree, its children are the first tree's entries followed by every entry
\* of each later tree in declaration order, none lost, duplicated or
\* reordered; the later trees keep their entries.
C3_MergeInOrder ==
    (TocFinished /\ renders = 1)
    => LET decls == ResolvingDecls(toctrees)
       IN  /\ result = FirstTransient
           /\ heap[result].children = EntriesOf(decls)
           /\ fragment = Str(RenderPartial(Node(EntriesOf(decls), FALSE)))
           /\ Len(heap) = Cardinality(EnvNodes) + Len(decls)
           /\ \A j \in 2..Len(decls) :
                 heap[Cardinality(EnvNodes) + j].children =
                    ResolvedChildren(pagename, heap[decls[j]])
C3_Witness ==
    /\ TocFinished /\ renders = 1
    /\ Len(ResolvingDecls(toctrees)) = 2
    /\ Len(heap[toctrees[1]].children) = 2
    /\ heap[toctrees[2]].children # heap[toctrees[1]].children
    /\ Len(heap[result].children) >= 3

\* C4: with no toctree node, or with toctree nodes that all resolve to no
\* tree, the call returns the empty string without raising and without
\* calling render_partial; a node that resolves to no tree is dropped and
\* the others are still merged and rendered.
C4_EmptyWhenNothingResolves ==
    /\ (docname \in DOMAIN env) => tpc # "raised"
    /\ (TocFinished /\ ResolvingDecls(toctrees) = <<>>)
       => (fragment = Str(<<>>) /\ renders = 0)
    /\ (TocFinished /\ ResolvingDecls(toctrees) # <<>>)
       => /\ renders = 1
          /\ fragment # Str(<<>>)
          /\ \A i \in 1..Len(resolved) : resolved[i] # 0
          /\ Len(heap[result].children) = Len(EntriesOf(ResolvingDecls(toctrees)))
C4_Witness ==
    /\ TocFinished /\ Len(toctrees) = 2
    /\ ResolvingDecls(toctrees) = <<>>
    /\ fragment = Str(<<>>) /\ renders = 0
C4_WitnessDropped ==
    /\ TocFinished /\ Len(toctrees) = 2
    /\ Len(ResolvingDecls(toctrees)) = 1
    /\ renders = 1

\* C8: no step of the call changes the Document Environment (the stored
\* doctree and its toctree nodes), and the repetition of a call with the
\* same page, document and options returns what the first call returned.
C8_IdempotentEnvUnchanged ==
    /\ []((TocFinished /\ callNo = 2) => fragment = firstFragment)
    /\ [][env' = env /\ \A n \in EnvNodes : heap'[n] = heap[n]]_vars
C8_Witness ==
    /\ TocFinished /\ callNo = 2
    /\ Len(ResolvingDecls(toctrees)) = 2
    /\ Len(heap[result].children) > Len(heap[FirstTransient + 1].children)
    /\ fragment = firstFragment /\ ~fragment.isNone /\ fragment.s # <<>>
====
